---- MODULE Spec2Model ----
(***************************************************************************)
(* leffa_predict of app.py as a state machine: one pass of the function is *)
(* a walk of pc over its source lines.  The external collaborators (PIL,   *)
(* resize_and_center, the mask predictor, the DensePose predictor, the     *)
(* transform and the two LeffaInference instances) are black boxes: each   *)
(* call either raises or returns a value that records what it was made on. *)
(* Every call is appended to `calls`, the trace of the request in flight.  *)
(***************************************************************************)
EXTENDS Integers, Sequences, FiniteSets, TLC

\* How many different answers a black box may give on one input.
NVariants == 2

\* resize_and_center(src_image, 768, 1024)
TargetWidth == 768
TargetHeight == 1024
\* np.ones_like(src_image_array) * 255
White == 255

Variants == 1..NVariants

VARIABLES
    pc,                   \* line of leffa_predict about to run, or "idle"
    src_image_path, ref_image_path, control_type,      \* the parameters
    src_image, ref_image, src_image_array, ref_image_array,
    mask, src_image_iuv_array, src_image_seg_array,
    src_image_iuv, src_image_seg, densepose,
    data, inference, output,
    result,               \* what the call handed to its caller
    calls,                \* external calls of the request in flight, in order
    requests              \* <<arguments, inference request>> pairs seen so far

params == <<src_image_path, ref_image_path, control_type>>
images == <<src_image, ref_image, src_image_array, ref_image_array>>
cond   == <<mask, src_image_iuv_array, src_image_seg_array,
            src_image_iuv, src_image_seg, densepose>>
tail   == <<data, inference, output>>
vars   == <<pc, params, images, cond, tail, result, calls, requests>>

-----------------------------------------------------------------------------
\* Values

\* A local name that has no binding yet.
Unbound == [unbound |-> TRUE]
NoArg == "<none>"

ValidControlTypes == {"virtual_tryon", "pose_transfer"}
ControlTypes == ValidControlTypes \cup {"invalid_task"}

\* The files a caller can point at: two decodable photos, one whose header
\* parses but whose pixel data is truncated, one that cannot be opened.
Paths == {"person.jpg", "garment.png", "truncated.jpg", "unreadable.bin"}

File(path) ==
    CASE path = "person.jpg"     -> [state |-> "ok", w |-> 400, h |-> 600, mode |-> "RGB"]
      [] path = "garment.png"    -> [state |-> "ok", w |-> 1000, h |-> 800, mode |-> "RGBA"]
      [] path = "truncated.jpg"  -> [state |-> "truncated", w |-> 400, h |-> 600, mode |-> "RGB"]
      [] path = "unreadable.bin" -> [state |-> "unreadable", w |-> 0, h |-> 0, mode |-> "RGB"]

\* Pixel content: where it came from, which file it depicts, which of the
\* box's answers it is, and its value when every pixel has the same one.
Px(origin, content, v, fill) ==
    [origin |-> origin, content |-> content, v |-> v, fill |-> fill]

Channels(mode) == IF mode = "RGBA" THEN 4 ELSE IF mode = "RGB" THEN 3 ELSE 1
ModeOf(c) == IF c = 4 THEN "RGBA" ELSE IF c = 3 THEN "RGB" ELSE "L"

\* Image.open(path): lazy, it parses the header only.
Image_open(path) ==
    [w |-> File(path).w, h |-> File(path).h, mode |-> File(path).mode,
     px |-> Px("file", path, 0, -1), loaded |-> FALSE]
Image_open_raises(path) == File(path).state = "unreadable"

\* resize_and_center(image, w, h): decodes the pixels, fits them on a canvas
\* of exactly w x h.
resize_and_center(image, w, h) ==
    [w |-> w, h |-> h, mode |-> image.mode, px |-> image.px, loaded |-> TRUE]
resize_and_center_raises(image) == File(image.px.content).state # "ok"

\* np.array(image)
np_array(image) ==
    [h |-> image.h, w |-> image.w, c |-> Channels(image.mode), px |-> image.px]

\* Image.fromarray(array)
Image_fromarray(array) ==
    [w |-> array.w, h |-> array.h, mode |-> ModeOf(array.c), px |-> array.px,
     loaded |-> TRUE]

\* image.convert("RGB")
convert_RGB(image) == [image EXCEPT !.mode = "RGB"]

\* Variant: the array of ones is not scaled.
ones_like_only(array, k) ==
    [array EXCEPT !.px = Px("ones_like", "", 0, 1)]

\* np.ones_like(array) * 255
ones_like_times(array, k) ==
    [array EXCEPT !.px = Px("ones_like", "", 0, 1 * k)]

\* mask_predictor(image, hint): a dict holding the mask.
mask_predictor_ret(image, hint, v) ==
    [mask |-> [w |-> image.w, h |-> image.h, mode |-> "L",
               px |-> Px("mask_predictor:" \o hint, image.px.content, v, -1),
               loaded |-> TRUE]]

\* densepose_predictor.predict_iuv(array) / predict_seg(array)
predict_iuv_ret(array, v) ==
    [h |-> array.h, w |-> array.w, c |-> 3,
     px |-> Px("predict_iuv", array.px.content, v, -1)]
predict_seg_ret(array, v) ==
    [h |-> array.h, w |-> array.w, c |-> 3,
     px |-> Px("predict_seg", array.px.content, v, -1)]

\* LeffaTransform()(data): the batch made of the request.
transform_ret(d) == [transform_of |-> d]

\* LeffaInference.__call__(data): a dict holding the generated images.
inference_ret(name, d, v) ==
    [generated_image |->
        <<[w |-> TargetWidth, h |-> TargetHeight, mode |-> "RGB",
           px |-> Px(name, d.transform_of.src_image[1].px.content, v, -1),
           loaded |-> TRUE]>>]

\* vt_inference = LeffaInference(model=vt_model)
vt_inference == [name |-> "vt_inference", pretrained_model |-> "./ckpts/virtual_tryon.pth"]
\* pt_inference = LeffaInference(model=pt_model)
pt_inference == [name |-> "pt_inference", pretrained_model |-> "./ckpts/pose_transfer.pth"]

\* What a failing predictor, transform or generator raises.
BackendError(fn) == "BackendError:" \o fn

\* Call records.
Ok(fn, site, arg, val) ==
    [fn |-> fn, site |-> site, arg |-> arg, ok |-> TRUE, error |-> "", val |-> val]
Raised(fn, site, arg, error) ==
    [fn |-> fn, site |-> site, arg |-> arg, ok |-> FALSE, error |-> error, val |-> Unbound]

Pending == [kind |-> "pending", error |-> "", image |-> Unbound]
Returned(array) == [kind |-> "image", error |-> "", image |-> array]
Raise(error) == [kind |-> "raise", error |-> error, image |-> Unbound]

\* The frame of a call that has just been entered.
NewFrame ==
    /\ src_image = Unbound /\ ref_image = Unbound
    /\ src_image_array = Unbound /\ ref_image_array = Unbound
    /\ mask = Unbound
    /\ src_image_iuv_array = Unbound /\ src_image_seg_array = Unbound
    /\ src_image_iuv = Unbound /\ src_image_seg = Unbound
    /\ densepose = Unbound
    /\ data = Unbound /\ inference = Unbound /\ output = Unbound

Init ==
    /\ pc = "idle"
    /\ src_image_path = NoArg /\ ref_image_path = NoArg /\ control_type = NoArg
    /\ NewFrame
    /\ result = [kind |-> "none", error |-> "", image |-> Unbound]
    /\ calls = <<>>
    /\ requests = {}

-----------------------------------------------------------------------------
\* Entering leffa_predict

\* def leffa_predict(src_image_path, ref_image_path, control_type): the
\* parameters are bound, every other local starts without a binding.
Enter(src, ref, ct) ==
    /\ pc = "idle"
    /\ pc' = "l40"
    /\ src_image_path' = src /\ ref_image_path' = ref /\ control_type' = ct
    /\ src_image' = Unbound /\ ref_image' = Unbound
    /\ src_image_array' = Unbound /\ ref_image_array' = Unbound
    /\ mask' = Unbound
    /\ src_image_iuv_array' = Unbound /\ src_image_seg_array' = Unbound
    /\ src_image_iuv' = Unbound /\ src_image_seg' = Unbound
    /\ densepose' = Unbound
    /\ data' = Unbound /\ inference' = Unbound /\ output' = Unbound
    /\ result' = Pending
    /\ calls' = <<>>
    /\ UNCHANGED requests

\* A direct call, with whatever task string the caller passes.
leffa_predict ==
    \E src \in Paths, ref \in Paths, ct \in ControlTypes : Enter(src, ref, ct)

\* vt_gen_button.click(fn=leffa_predict_vt, ...)
leffa_predict_vt ==
    \E src \in Paths, ref \in Paths : Enter(src, ref, "virtual_tryon")

\* pose_transfer_gen_button.click(fn=leffa_predict_pt, ...)
leffa_predict_pt ==
    \E src \in Paths, ref \in Paths : Enter(src, ref, "pose_transfer")

-----------------------------------------------------------------------------
\* The body of leffa_predict, line by line

\* An exception leaves the function: nothing catches it.
Propagate(call, error) ==
    /\ calls' = Append(calls, call)
    /\ result' = Raise(error)
    /\ pc' = "idle"

\* Variant: the assertion is not evaluated (as under python -O).
l40_assert_stripped ==
    /\ pc = "l40"
    /\ pc' = "l42"
    /\ UNCHANGED <<params, images, cond, tail, result, calls, requests>>

\* assert control_type in ["virtual_tryon", "pose_transfer"], ...
l40_assert ==
    /\ pc = "l40"
    /\ IF control_type \in ValidControlTypes
         THEN pc' = "l42" /\ UNCHANGED result
         ELSE pc' = "idle" /\ result' = Raise("AssertionError")
    /\ UNCHANGED <<params, images, cond, tail, calls, requests>>

\* src_image = Image.open(src_image_path)
l42_open_src ==
    /\ pc = "l42"
    /\ IF Image_open_raises(src_image_path)
         THEN /\ Propagate(Raised("Image.open", 42, src_image_path, "DecodeError"),
                           "DecodeError")
              /\ UNCHANGED src_image
         ELSE /\ src_image' = Image_open(src_image_path)
              /\ calls' = Append(calls, Ok("Image.open", 42, src_image_path,
                                           Image_open(src_image_path)))
              /\ pc' = "l43"
              /\ UNCHANGED result
    /\ UNCHANGED <<params, ref_image, src_image_array, ref_image_array,
                   cond, tail, requests>>

\* ref_image = Image.open(ref_image_path)
l43_open_ref ==
    /\ pc = "l43"
    /\ IF Image_open_raises(ref_image_path)
         THEN /\ Propagate(Raised("Image.open", 43, ref_image_path, "DecodeError"),
                           "DecodeError")
              /\ UNCHANGED ref_image
         ELSE /\ ref_image' = Image_open(ref_image_path)
              /\ calls' = Append(calls, Ok("Image.open", 43, ref_image_path,
                                           Image_open(ref_image_path)))
              /\ pc' = "l44"
              /\ UNCHANGED result
    /\ UNCHANGED <<params, src_image, src_image_array, ref_image_array,
                   cond, tail, requests>>

\* src_image = resize_and_center(src_image, 768, 1024)
l44_resize_src ==
    /\ pc = "l44"
    /\ IF resize_and_center_raises(src_image)
         THEN /\ Propagate(Raised("resize_and_center", 44, src_image, "DecodeError"),
                           "DecodeError")
              /\ UNCHANGED src_image
         ELSE /\ src_image' = resize_and_center(src_image, TargetWidth, TargetHeight)
              /\ calls' = Append(calls, Ok("resize_and_center", 44, src_image,
                    resize_and_center(src_image, TargetWidth, TargetHeight)))
              /\ pc' = "l45"
              /\ UNCHANGED result
    /\ UNCHANGED <<params, ref_image, src_image_array, ref_image_array,
                   cond, tail, requests>>

\* Variant: a failure to normalize the reference image is swallowed and the
\* function carries on with the image as opened.
l45_resize_ref_swallow ==
    /\ pc = "l45"
    /\ IF resize_and_center_raises(ref_image)
         THEN /\ calls' = Append(calls, Raised("resize_and_center", 45, ref_image,
                                               "DecodeError"))
              /\ UNCHANGED ref_image
         ELSE /\ ref_image' = resize_and_center(ref_image, TargetWidth, TargetHeight)
              /\ calls' = Append(calls, Ok("resize_and_center", 45, ref_image,
                    resize_and_center(ref_image, TargetWidth, TargetHeight)))
    /\ pc' = "l47"
    /\ UNCHANGED <<params, src_image, src_image_array, ref_image_array,
                   cond, tail, result, requests>>

\* ref_image = resize_and_center(ref_image, 768, 1024)
l45_resize_ref ==
    /\ pc = "l45"
    /\ IF resize_and_center_raises(ref_image)
         THEN /\ Propagate(Raised("resize_and_center", 45, ref_image, "DecodeError"),
                           "DecodeError")
              /\ UNCHANGED ref_image
         ELSE /\ ref_image' = resize_and_center(ref_image, TargetWidth, TargetHeight)
              /\ calls' = Append(calls, Ok("resize_and_center", 45, ref_image,
                    resize_and_center(ref_image, TargetWidth, TargetHeight)))
              /\ pc' = "l47"
              /\ UNCHANGED result
    /\ UNCHANGED <<params, src_image, src_image_array, ref_image_array,
                   cond, tail, requests>>

\* src_image_array = np.array(src_image); ref_image_array = np.array(ref_image)
l47_arrays ==
    /\ pc = "l47"
    /\ src_image_array' = np_array(src_image)
    /\ ref_image_array' = np_array(ref_image)
    /\ pc' = "l51"
    /\ UNCHANGED <<params, src_image, ref_image, cond, tail, result, calls, requests>>

\* Variant: the two branches are exchanged.
l51_mask_swapped(V) ==
    /\ pc = "l51"
    /\ IF control_type = "pose_transfer"
         THEN /\ src_image' = convert_RGB(src_image)
              /\ \/ /\ Propagate(Raised("mask_predictor", 53,
                                        <<convert_RGB(src_image), "upper">>,
                                        BackendError("mask_predictor")),
                                 BackendError("mask_predictor"))
                    /\ UNCHANGED mask
                 \/ \E v \in V :
                       /\ mask' = mask_predictor_ret(convert_RGB(src_image), "upper", v).mask
                       /\ calls' = Append(calls, Ok("mask_predictor", 53,
                              <<convert_RGB(src_image), "upper">>,
                              mask_predictor_ret(convert_RGB(src_image), "upper", v)))
                       /\ pc' = "l58"
                       /\ UNCHANGED result
         ELSE /\ mask' = IF control_type = "virtual_tryon"
                           THEN Image_fromarray(ones_like_times(src_image_array, White))
                           ELSE mask
              /\ pc' = "l58"
              /\ UNCHANGED <<src_image, result, calls>>
    /\ UNCHANGED <<params, ref_image, src_image_array, ref_image_array,
                   src_image_iuv_array, src_image_seg_array,
                   src_image_iuv, src_image_seg, densepose, tail, requests>>

\* Variant: the mask outlives the request. A mask some earlier request got
\* from the predictor is used again for pose transfer.
l51_mask_reuse(V) ==
    /\ pc = "l51"
    /\ IF control_type = "virtual_tryon"
         THEN /\ src_image' = convert_RGB(src_image)
              /\ \/ /\ Propagate(Raised("mask_predictor", 53,
                                        <<convert_RGB(src_image), "upper">>,
                                        BackendError("mask_predictor")),
                                 BackendError("mask_predictor"))
                    /\ UNCHANGED mask
                 \/ \E v \in V :
                       /\ mask' = mask_predictor_ret(convert_RGB(src_image), "upper", v).mask
                       /\ calls' = Append(calls, Ok("mask_predictor", 53,
                              <<convert_RGB(src_image), "upper">>,
                              mask_predictor_ret(convert_RGB(src_image), "upper", v)))
                       /\ pc' = "l58"
                       /\ UNCHANGED result
         ELSE /\ mask' =
                   LET kept == {r \in requests : r[2].mask[1].px.origin # "ones_like"}
                   IN  IF kept # {}
                         THEN (CHOOSE r \in kept : TRUE)[2].mask[1]
                         ELSE Image_fromarray(ones_like_times(src_image_array, White))
              /\ pc' = "l58"
              /\ UNCHANGED <<src_image, result, calls>>
    /\ UNCHANGED <<params, ref_image, src_image_array, ref_image_array,
                   src_image_iuv_array, src_image_seg_array,
                   src_image_iuv, src_image_seg, densepose, tail, requests>>

\* if control_type == "virtual_tryon":
\*     src_image = src_image.convert("RGB")
\*     mask = mask_predictor(src_image, "upper")["mask"]
\* elif control_type == "pose_transfer":
\*     mask = Image.fromarray(np.ones_like(src_image_array) * 255)
l51_mask(V) ==
    /\ pc = "l51"
    /\ IF control_type = "virtual_tryon"
         THEN /\ src_image' = convert_RGB(src_image)
              /\ \/ /\ Propagate(Raised("mask_predictor", 53,
                                        <<convert_RGB(src_image), "upper">>,
                                        BackendError("mask_predictor")),
                                 BackendError("mask_predictor"))
                    /\ UNCHANGED mask
                 \/ \E v \in V :
                       /\ mask' = mask_predictor_ret(convert_RGB(src_image), "upper", v).mask
                       /\ calls' = Append(calls, Ok("mask_predictor", 53,
                              <<convert_RGB(src_image), "upper">>,
                              mask_predictor_ret(convert_RGB(src_image), "upper", v)))
                       /\ pc' = "l58"
                       /\ UNCHANGED result
         ELSE /\ mask' = IF control_type = "pose_transfer"
                           THEN Image_fromarray(ones_like_times(src_image_array, White))
                           ELSE mask
              /\ pc' = "l58"
              /\ UNCHANGED <<src_image, result, calls>>
    /\ UNCHANGED <<params, ref_image, src_image_array, ref_image_array,
                   src_image_iuv_array, src_image_seg_array,
                   src_image_iuv, src_image_seg, densepose, tail, requests>>

\* Variant: predict_iuv is called only for the task that uses its result.
l58_predict_iuv_lazy(V) ==
    /\ pc = "l58"
    /\ IF control_type = "pose_transfer"
         THEN \/ /\ Propagate(Raised("predict_iuv", 58, src_image_array,
                                     BackendError("predict_iuv")),
                              BackendError("predict_iuv"))
                 /\ UNCHANGED src_image_iuv_array
              \/ \E v \in V :
                    /\ src_image_iuv_array' = predict_iuv_ret(src_image_array, v)
                    /\ calls' = Append(calls, Ok("predict_iuv", 58, src_image_array,
                                                 predict_iuv_ret(src_image_array, v)))
                    /\ pc' = "l59"
                    /\ UNCHANGED result
         ELSE /\ src_image_iuv_array' = [src_image_array EXCEPT !.px = Px("zeros", "", 0, 0)]
              /\ pc' = "l59"
              /\ UNCHANGED <<result, calls>>
    /\ UNCHANGED <<params, images, mask, src_image_seg_array,
                   src_image_iuv, src_image_seg, densepose, tail, requests>>

\* src_image_iuv_array = densepose_predictor.predict_iuv(src_image_array)
l58_predict_iuv(V) ==
    /\ pc = "l58"
    /\ \/ /\ Propagate(Raised("predict_iuv", 58, src_image_array,
                              BackendError("predict_iuv")),
                       BackendError("predict_iuv"))
          /\ UNCHANGED src_image_iuv_array
       \/ \E v \in V :
             /\ src_image_iuv_array' = predict_iuv_ret(src_image_array, v)
             /\ calls' = Append(calls, Ok("predict_iuv", 58, src_image_array,
                                          predict_iuv_ret(src_image_array, v)))
             /\ pc' = "l59"
             /\ UNCHANGED result
    /\ UNCHANGED <<params, images, mask, src_image_seg_array,
                   src_image_iuv, src_image_seg, densepose, tail, requests>>

\* src_image_seg_array = densepose_predictor.predict_seg(src_image_array)
l59_predict_seg(V) ==
    /\ pc = "l59"
    /\ \/ /\ Propagate(Raised("predict_seg", 59, src_image_array,
                              BackendError("predict_seg")),
                       BackendError("predict_seg"))
          /\ UNCHANGED src_image_seg_array
       \/ \E v \in V :
             /\ src_image_seg_array' = predict_seg_ret(src_image_array, v)
             /\ calls' = Append(calls, Ok("predict_seg", 59, src_image_array,
                                          predict_seg_ret(src_image_array, v)))
             /\ pc' = "l60"
             /\ UNCHANGED result
    /\ UNCHANGED <<params, images, mask, src_image_iuv_array,
                   src_image_iuv, src_image_seg, densepose, tail, requests>>

\* Variant: the two dense maps are exchanged.
l60_densepose_swapped ==
    /\ pc = "l60"
    /\ src_image_iuv' = Image_fromarray(src_image_iuv_array)
    /\ src_image_seg' = Image_fromarray(src_image_seg_array)
    /\ densepose' = IF control_type = "virtual_tryon"
                      THEN Image_fromarray(src_image_iuv_array)
                      ELSE IF control_type = "pose_transfer"
                             THEN Image_fromarray(src_image_seg_array)
                             ELSE densepose
    /\ pc' = "l70"
    /\ UNCHANGED <<params, images, mask, src_image_iuv_array, src_image_seg_array,
                   tail, result, calls, requests>>

\* src_image_iuv = Image.fromarray(src_image_iuv_array)
\* src_image_seg = Image.fromarray(src_image_seg_array)
\* if control_type == "virtual_tryon": densepose = src_image_seg
\* elif control_type == "pose_transfer": densepose = src_image_iuv
l60_densepose ==
    /\ pc = "l60"
    /\ src_image_iuv' = Image_fromarray(src_image_iuv_array)
    /\ src_image_seg' = Image_fromarray(src_image_seg_array)
    /\ densepose' = IF control_type = "virtual_tryon"
                      THEN Image_fromarray(src_image_seg_array)
                      ELSE IF control_type = "pose_transfer"
                             THEN Image_fromarray(src_image_iuv_array)
                             ELSE densepose
    /\ pc' = "l70"
    /\ UNCHANGED <<params, images, mask, src_image_iuv_array, src_image_seg_array,
                   tail, result, calls, requests>>

\* transform = LeffaTransform()
\* data = {"src_image": [src_image], "ref_image": [ref_image],
\*         "mask": [mask], "densepose": [densepose]}
\* Reading a local that was never bound raises UnboundLocalError.
InferenceRequest ==
    [src_image |-> <<src_image>>, ref_image |-> <<ref_image>>,
     mask |-> <<mask>>, densepose |-> <<densepose>>]

l70_data(log) ==
    /\ pc = "l70"
    /\ IF mask = Unbound \/ densepose = Unbound
         THEN /\ result' = Raise("UnboundLocalError")
              /\ pc' = "idle"
              /\ UNCHANGED <<data, requests>>
         ELSE /\ data' = InferenceRequest
              /\ requests' = IF log THEN requests \cup {<<params, InferenceRequest>>}
                                    ELSE requests
              /\ pc' = "l76"
              /\ UNCHANGED result
    /\ UNCHANGED <<params, images, cond, inference, output, calls>>

\* data = transform(data)
l76_transform ==
    /\ pc = "l76"
    /\ \/ /\ Propagate(Raised("transform", 76, data, BackendError("transform")),
                       BackendError("transform"))
          /\ UNCHANGED data
       \/ /\ data' = transform_ret(data)
          /\ calls' = Append(calls, Ok("transform", 76, data, transform_ret(data)))
          /\ pc' = "l77"
          /\ UNCHANGED result
    /\ UNCHANGED <<params, images, cond, inference, output, requests>>

\* Variant: every task is sent to the try-on instance.
l77_inference_always_vt ==
    /\ pc = "l77"
    /\ inference' = vt_inference
    /\ pc' = "l81"
    /\ UNCHANGED <<params, images, cond, data, output, result, calls, requests>>

\* if control_type == "virtual_tryon": inference = vt_inference
\* elif control_type == "pose_transfer": inference = pt_inference
l77_inference ==
    /\ pc = "l77"
    /\ inference' = IF control_type = "virtual_tryon" THEN vt_inference
                    ELSE IF control_type = "pose_transfer" THEN pt_inference
                    ELSE inference
    /\ pc' = "l81"
    /\ UNCHANGED <<params, images, cond, data, output, result, calls, requests>>

\* Variant: a failed generation is tried again instead of being raised.
l81_output_retry(V) ==
    /\ pc = "l81"
    /\ IF inference = Unbound
         THEN /\ result' = Raise("UnboundLocalError")
              /\ pc' = "idle"
              /\ UNCHANGED <<output, calls>>
         ELSE \/ /\ Len(calls) < 12
                 /\ calls' = Append(calls, Raised(inference.name, 81, data,
                                                  BackendError(inference.name)))
                 /\ UNCHANGED <<output, pc, result>>
              \/ \E v \in V :
                    /\ output' = inference_ret(inference.name, data, v)
                    /\ calls' = Append(calls, Ok(inference.name, 81, data,
                                                 inference_ret(inference.name, data, v)))
                    /\ pc' = "l82"
                    /\ UNCHANGED result
    /\ UNCHANGED <<params, images, cond, data, inference, requests>>

\* output = inference(data)
l81_output(V) ==
    /\ pc = "l81"
    /\ IF inference = Unbound
         THEN /\ result' = Raise("UnboundLocalError")
              /\ pc' = "idle"
              /\ UNCHANGED <<output, calls>>
         ELSE \/ /\ Propagate(Raised(inference.name, 81, data,
                                     BackendError(inference.name)),
                              BackendError(inference.name))
                 /\ UNCHANGED output
              \/ \E v \in V :
                    /\ output' = inference_ret(inference.name, data, v)
                    /\ calls' = Append(calls, Ok(inference.name, 81, data,
                                                 inference_ret(inference.name, data, v)))
                    /\ pc' = "l82"
                    /\ UNCHANGED result
    /\ UNCHANGED <<params, images, cond, data, inference, requests>>

\* gen_image = output["generated_image"][0]
\* return np.array(gen_image)
l82_return ==
    /\ pc = "l82"
    /\ result' = Returned(np_array(output.generated_image[1]))
    /\ pc' = "idle"
    /\ UNCHANGED <<params, images, cond, tail, calls, requests>>

-----------------------------------------------------------------------------
\* Specifications

\* Black boxes may answer differently from one call to the next.
Next ==
    \/ leffa_predict \/ leffa_predict_vt \/ leffa_predict_pt
    \/ l40_assert
    \/ l42_open_src \/ l43_open_ref \/ l44_resize_src \/ l45_resize_ref
    \/ l47_arrays
    \/ l51_mask(Variants)
    \/ l58_predict_iuv(Variants) \/ l59_predict_seg(Variants)
    \/ l60_densepose
    \/ l70_data(FALSE)
    \/ l76_transform
    \/ l77_inference
    \/ l81_output(Variants)
    \/ l82_return

Spec == Init /\ [][Next]_vars

\* Black boxes are functions of their inputs (they may still raise), and the
\* inference request of every call is kept in `requests`.
NextDet ==
    \/ leffa_predict \/ leffa_predict_vt \/ leffa_predict_pt
    \/ l40_assert
    \/ l42_open_src \/ l43_open_ref \/ l44_resize_src \/ l45_resize_ref
    \/ l47_arrays
    \/ l51_mask({1})
    \/ l58_predict_iuv({1}) \/ l59_predict_seg({1})
    \/ l60_densepose
    \/ l70_data(TRUE)
    \/ l76_transform
    \/ l77_inference
    \/ l81_output({1})
    \/ l82_return

SpecDet == Init /\ [][NextDet]_vars

-----------------------------------------------------------------------------
\* Reading the trace of a request

Predictors == {"mask_predictor", "predict_iuv", "predict_seg"}
Backends == {vt_inference.name, pt_inference.name}

CallsOf(fns) == SelectSeq(calls, LAMBDA c : c.fn \in fns)
Index(fn) == CHOOSE i \in 1..Len(calls) : calls[i].fn = fn

InRequest == control_type # NoArg
ValidTask == control_type \in ValidControlTypes
Readable == /\ InRequest
            /\ File(src_image_path).state = "ok"
            /\ File(ref_image_path).state = "ok"

\* The inference request as assembled at lines 70-75, also once line 76 has
\* rebound `data` to the transformed batch.
Assembled == data # Unbound
Request == IF "transform_of" \in DOMAIN data THEN data.transform_of ELSE data

\* np.array of the normalized source image, from the path alone.
NormalizedSourceArray ==
    np_array(resize_and_center(Image_open(src_image_path), TargetWidth, TargetHeight))

AfterPredictIuv == {"l59", "l60", "l70", "l76", "l77", "l81", "l82"}
AfterPredictSeg == {"l60", "l70", "l76", "l77", "l81", "l82"}

-----------------------------------------------------------------------------
\* C1: a call whose control_type is neither "virtual_tryon" nor
\* "pose_transfer" never gets past the assertion: it makes no external call,
\* binds no image, and ends by raising the assertion's error.
C1_InvalidTaskRejectedFirst ==
    (InRequest /\ ~ValidTask) =>
        /\ pc \in {"l40", "idle"}
        /\ calls = <<>>
        /\ src_image = Unbound /\ ref_image = Unbound
        /\ src_image_array = Unbound /\ ref_image_array = Unbound
        /\ mask = Unbound /\ densepose = Unbound /\ data = Unbound
        /\ output = Unbound
        /\ pc = "idle" => result = Raise("AssertionError")

C1_Witness ==
    /\ pc = "idle" /\ control_type = "invalid_task"
    /\ result.kind = "raise" /\ calls = <<>>

\* C2: in a virtual-try-on request the mask of the inference request, and of
\* what the generation backend is called on, is the mask returned by the one
\* mask_predictor call of the request, made on the RGB source image with
\* hint "upper"; it is not the synthesized all-white mask.
C2_TryOnMaskIsPredicted ==
    (control_type = "virtual_tryon" /\ Assembled) =>
        LET m == CallsOf({"mask_predictor"}) IN
        /\ Len(m) = 1
        /\ m[1].ok
        /\ m[1].arg = <<convert_RGB(resize_and_center(Image_open(src_image_path),
                                        TargetWidth, TargetHeight)), "upper">>
        /\ Request.mask = <<m[1].val.mask>>
        /\ Request.mask[1] # Image_fromarray(ones_like_times(src_image_array, White))
        /\ Request.mask[1].px.origin # "ones_like"
        /\ \A i \in 1..Len(calls) :
              calls[i].fn \in Backends => calls[i].arg.transform_of.mask = <<m[1].val.mask>>

C2_Witness ==
    /\ control_type = "virtual_tryon"
    /\ CallsOf(Backends) # <<>>
    /\ CallsOf({"mask_predictor"})[1].val.mask.px.v = NVariants

\* C3: in a pose-transfer request the mask predictor is never called, and the
\* mask of the inference request is a 768 x 1024 image in which every pixel
\* is 255.
C3_PoseMaskIsWhite ==
    (control_type = "pose_transfer") =>
        /\ CallsOf({"mask_predictor"}) = <<>>
        /\ Assembled =>
              /\ Request.mask[1].w = TargetWidth
              /\ Request.mask[1].h = TargetHeight
              /\ Request.mask[1].px.fill = 255
        /\ \A i \in 1..Len(calls) :
              calls[i].fn \in Backends =>
                 calls[i].arg.transform_of.mask[1].px.fill = 255

C3_Witness ==
    /\ control_type = "pose_transfer"
    /\ pc = "l82"
    /\ data.transform_of.mask[1].px.fill = 255

\* C4: the dense map of the inference request is Image.fromarray of what
\* predict_seg returned (virtual try-on) or of what predict_iuv returned
\* (pose transfer), each called on the array of the normalized source image;
\* it is never the other one.
C4_DenseMapByTask ==
    (ValidTask /\ Assembled) =>
        LET iuv == CallsOf({"predict_iuv"})
            seg == CallsOf({"predict_seg"})
        IN  /\ Len(iuv) = 1 /\ Len(seg) = 1
            /\ iuv[1].arg = NormalizedSourceArray
            /\ seg[1].arg = NormalizedSourceArray
            /\ control_type = "virtual_tryon" =>
                  /\ Request.densepose = <<Image_fromarray(seg[1].val)>>
                  /\ Request.densepose[1] # Image_fromarray(iuv[1].val)
            /\ control_type = "pose_transfer" =>
                  /\ Request.densepose = <<Image_fromarray(iuv[1].val)>>
                  /\ Request.densepose[1] # Image_fromarray(seg[1].val)

C4_Witness ==
    /\ control_type = "pose_transfer"
    /\ pc = "l76"
    /\ data.densepose[1].px.origin = "predict_iuv"
    /\ src_image_path = "garment.png"

\* C5: a call that returns an image has called exactly one generation
\* backend, exactly once: vt_inference for virtual try-on, pt_inference for
\* pose transfer; what it returns is the first generated image of that call.
C5_OneMatchingBackend ==
    (pc = "idle" /\ result.kind = "image") =>
        LET b == CallsOf(Backends) IN
        /\ Len(b) = 1
        /\ b[1].ok
        /\ control_type = "virtual_tryon" => b[1].fn = vt_inference.name
        /\ control_type = "pose_transfer" => b[1].fn = pt_inference.name
        /\ ValidTask
        /\ result.image = np_array(b[1].val.generated_image[1])

C5_Witness ==
    /\ pc = "idle" /\ result.kind = "image"
    /\ control_type = "pose_transfer"
    /\ CallsOf(Backends)[1].fn = "pt_inference"

\* C6: a request with a valid task whose source or reference file cannot be
\* opened or decoded ends with a decode error, and no predictor, transform or
\* generation backend is called in it.
C6_DecodeErrorBeforePredictors ==
    (InRequest /\ ValidTask /\ ~Readable) =>
        /\ pc \in {"l40", "l42", "l43", "l44", "l45", "idle"}
        /\ CallsOf(Predictors \cup Backends \cup {"transform"}) = <<>>
        /\ pc = "idle" => result = Raise("DecodeError")

C6_Witness ==
    /\ pc = "idle"
    /\ control_type = "pose_transfer"
    /\ src_image_path = "person.jpg" /\ ref_image_path = "truncated.jpg"
    /\ result = Raise("DecodeError")
    /\ Len(calls) = 4

\* C7: a finished call has either returned one image, with no call having
\* failed, or raised and returned none. A collaborator that raises is the
\* last call of the request and its error is what the request raises; no
\* call site is used twice in one request.
C7_FailuresPropagate ==
    /\ pc # "idle" => result = Pending
    /\ (pc = "idle" /\ InRequest) =>
          \/ /\ result.kind = "image" /\ result.image # Unbound
             /\ \A i \in 1..Len(calls) : calls[i].ok
          \/ /\ result.kind = "raise" /\ result.image = Unbound
    /\ \A i \in 1..Len(calls) :
          ~calls[i].ok =>
             /\ i = Len(calls)
             /\ pc = "idle"
             /\ result = Raise(calls[i].error)
    /\ \A i, j \in 1..Len(calls) : i # j => calls[i].site # calls[j].site

C7_Witness ==
    /\ pc = "idle" /\ result.kind = "raise"
    /\ Len(calls) = 8
    /\ calls[8].fn = "transform" /\ ~calls[8].ok
    /\ result.error = BackendError("transform")

\* C9: with predictors that are functions of their inputs, two calls with
\* the same (source path, reference path, control type) assemble the same
\* inference request, whatever calls were made in between.
C9_SameArgumentsSameRequest ==
    \A a, b \in requests : a[1] = b[1] => a[2] = b[2]

\* A call about to assemble its request, after an earlier call with the
\* same arguments and calls with other arguments.
C9_Witness ==
    /\ pc = "l70"
    /\ Cardinality(requests) >= 3
    /\ \E r \in requests : r[1] = params /\ r[2] = InferenceRequest
    /\ \E r \in requests : r[1][3] # control_type

\* C10 (as stated): every request with a valid task and readable images has
\* called both predict_iuv and predict_seg by the time it ends.
C10_BothAlwaysInvoked ==
    (pc = "idle" /\ ValidTask /\ Readable) =>
        /\ Len(CallsOf({"predict_iuv"})) = 1
        /\ Len(CallsOf({"predict_seg"})) = 1

\* C10 (amended): in a request with a valid task and readable images,
\* predict_iuv is called once the mask step has returned, and predict_seg
\* right after it once predict_iuv has returned, both on the array of the
\* normalized source image and whatever the task; if either raises, the
\* request raises and neither the transform nor a backend is called.
C10_DenseOpsInOrder ==
    (ValidTask /\ Readable) =>
        LET iuv == CallsOf({"predict_iuv"})
            seg == CallsOf({"predict_seg"})
            msk == CallsOf({"mask_predictor"})
            later == CallsOf(Backends \cup {"transform"})
        IN  /\ Len(iuv) <= 1 /\ Len(seg) <= 1
            /\ \A i \in 1..Len(calls) :
                  calls[i].fn \in {"predict_iuv", "predict_seg"} =>
                     calls[i].arg = NormalizedSourceArray
            /\ pc \in AfterPredictIuv => Len(iuv) = 1 /\ iuv[1].ok
            /\ pc \in AfterPredictSeg => Len(seg) = 1 /\ seg[1].ok
            /\ Len(seg) = 1 =>
                  /\ Len(iuv) = 1 /\ iuv[1].ok
                  /\ Index("predict_seg") = Index("predict_iuv") + 1
            /\ pc = "idle" =>
                  /\ (\A i \in 1..Len(msk) : msk[i].ok) => Len(iuv) = 1
                  /\ (Len(iuv) = 1 /\ iuv[1].ok) => Len(seg) = 1
            /\ later # <<>> => Len(seg) = 1 /\ seg[1].ok
            /\ ((Len(iuv) = 1 /\ ~iuv[1].ok) \/ (Len(seg) = 1 /\ ~seg[1].ok)) =>
                  /\ later = <<>>
                  /\ pc = "idle" /\ result.kind = "raise"

C10_Witness ==
    /\ pc = "idle"
    /\ control_type = "virtual_tryon"
    /\ Len(calls) = 6
    /\ calls[5].fn = "mask_predictor" /\ calls[5].ok
    /\ calls[6].fn = "predict_iuv" /\ ~calls[6].ok
    /\ result = Raise(BackendError("predict_iuv"))

====
